---- MODULE Spec2Model ----
(***************************************************************************)
(* Model of repo_miner.py: the fetch-commits, fetch-issues and summarize   *)
(* commands of main(), with fetch_commits, fetch_issues and                *)
(* merge_and_summarize translated statement by statement.                  *)
(*                                                                         *)
(* Encoding of Python values:                                              *)
(*   None / NaN / NaT      the empty tuple <<>>                            *)
(*   any other value v     the one-element tuple <<v>>                     *)
(*   str                   a tuple of one-character strings (messages), or *)
(*                         a TLA+ string where only equality is needed     *)
(*   datetime              seconds after 2025-09-20T12:00:00               *)
(***************************************************************************)
EXTENDS Integers, Sequences, FiniteSets, TLC

VARIABLES repo, result, sink, commits_df, issues_df, stdout

vars == <<repo, result, sink, commits_df, issues_df, stdout>>

None == <<>>

Some(v) == <<v>>

Val(o) == o[1]

Min(a, b) == IF a <= b THEN a ELSE b

Range(s) == {s[i] : i \in DOMAIN s}

RECURSIVE SeqsUpTo(_, _)
SeqsUpTo(S, n) ==
  IF n = 0 THEN {<<>>}
  ELSE LET shorter == SeqsUpTo(S, n - 1)
       IN  shorter \cup {Append(s, x) : s \in {t \in shorter : Len(t) = n - 1}, x \in S}

(***************************************************************************)
(* Bounds                                                                  *)
(***************************************************************************)
MaxCommits == 2

MaxMsgLen == 4

MaxCap == 2

MaxIssues == 3

MaxFaultItems == 2

MaxPerAuthor == 2

MaxIssueRows == 3

MaxSummaryRows == 1

(***************************************************************************)
(* str.splitlines, str.strip and datetime.isoformat                        *)
(***************************************************************************)
LineBreaks == {"\n"}

Whitespace == {" ", "\n"}

Alphabet == {"a", "b", " ", "\n"}

\* str.splitlines(): cut at every line break; a trailing break opens no line.
RECURSIVE SplitFrom(_, _, _, _)
SplitFrom(s, i, lines, cur) ==
  IF i > Len(s) THEN (IF cur = <<>> THEN lines ELSE Append(lines, cur))
  ELSE IF s[i] \in LineBreaks THEN SplitFrom(s, i + 1, Append(lines, cur), <<>>)
  ELSE SplitFrom(s, i + 1, lines, Append(cur, s[i]))

splitlines(s) == SplitFrom(s, 1, <<>>, <<>>)

RECURSIVE lstrip(_)
lstrip(s) == IF s # <<>> /\ Head(s) \in Whitespace THEN lstrip(Tail(s)) ELSE s

RECURSIVE rstrip(_)
rstrip(s) ==
  IF s # <<>> /\ s[Len(s)] \in Whitespace THEN rstrip(SubSeq(s, 1, Len(s) - 1)) ELSE s

\* strip that forgets the trailing whitespace
strip_leading_only(s) == lstrip(s)

strip(s) == rstrip(lstrip(s))

T0 == 0

T1 == 162000

Datetimes == {T0, T1}

isoformat(t) ==
  CASE t = T0 -> "2025-09-20T12:00:00"
    [] t = T1 -> "2025-09-22T09:00:00"

(***************************************************************************)
(* The hosting API as fetch_commits sees it                                *)
(***************************************************************************)
GitAuthors ==
  { None,
    Some([name |-> None, email |-> None, date |-> Some(T0)]),
    Some([name |-> Some("Alice"), email |-> Some("a@example.com"), date |-> Some(T1)]),
    Some([name |-> Some("Bob"), email |-> Some("b@example.com"), date |-> None]) }

Messages == SeqsUpTo(Alphabet, MaxMsgLen)

Alice == Some([name |-> Some("Alice"), email |-> Some("a@example.com"), date |-> Some(T1)])

\* Source commits before their sha is given: every shape of author with
\* and without a sha, an empty message, a message of two lines.
CommitKinds ==
  {[hasSha |-> h, author |-> a, message |-> <<"a">>] : h \in BOOLEAN, a \in GitAuthors}
  \cup {[hasSha |-> TRUE, author |-> Alice, message |-> m] : m \in {<<>>, <<"a", "\n", "b">>}}

StampCommits(kinds) ==
  [i \in DOMAIN kinds |->
     [sha |-> IF kinds[i].hasSha THEN Some(i) ELSE None,
      commit |-> [author |-> kinds[i].author, message |-> kinds[i].message]]]

\* Histories of up to MaxCommits commits of these kinds, and histories that
\* have a commit with any message of up to MaxMsgLen characters.
Histories ==
  {StampCommits(k) : k \in SeqsUpTo(CommitKinds, MaxCommits)}
  \cup {StampCommits(<<[hasSha |-> TRUE, author |-> Alice, message |-> m]>>) : m \in Messages}
  \cup {StampCommits(<<[hasSha |-> TRUE, author |-> Alice, message |-> <<"b">>],
                       [hasSha |-> TRUE, author |-> Alice, message |-> m]>>) : m \in Messages}

Caps == {None} \cup {Some(k) : k \in 0..MaxCap}

\* Outcome of a call: a returned DataFrame (its records) or a raised exception.
Returned(records) == [status |-> "returned", error |-> "", records |-> records]

Raised(error) == [status |-> "raised", error |-> error, records |-> <<>>]

(***************************************************************************)
(* fetch_commits                                                           *)
(***************************************************************************)
\* One pass of the loop body, lines 132-145: the record, or the exception.
CommitRecord(c) ==
  LET commit_author == c.commit.author
  IN  IF commit_author = None THEN Raised("AttributeError")
      ELSE IF c.sha = None THEN Raised("AttributeError")
      ELSE IF Val(commit_author).date = None THEN Raised("AttributeError")
      ELSE IF splitlines(c.commit.message) = <<>> THEN Raised("IndexError")
      ELSE Returned(<<[sha     |-> c.sha,
                       author  |-> Val(commit_author).name,
                       email   |-> Val(commit_author).email,
                       date    |-> Some(isoformat(Val(Val(commit_author).date))),
                       message |-> strip(splitlines(c.commit.message)[1])]>>)

\* The for loop of lines 130-148 from the i-th item on. failsAt = j > 0 means
\* the iterator raises when asked for its j-th item.
RECURSIVE CommitLoop(_, _, _, _, _, _)
CommitLoop(items, failsAt, max_commits, i, records, count) ==
  IF failsAt = i THEN Raised("GithubException")
  ELSE IF i > Len(items) THEN Returned(records)
  ELSE LET rec == CommitRecord(items[i])
       IN  IF rec.status = "raised" THEN rec
           ELSE IF max_commits # None /\ count + 1 >= Val(max_commits)
                THEN Returned(records \o rec.records)
                ELSE CommitLoop(items, failsAt, max_commits, i + 1,
                                records \o rec.records, count + 1)

\* fetch_commits falling back to an empty table when the lookup fails
fetch_commits_empty_fallback(r, max_commits) ==
  IF ~r.resolves THEN Returned(<<>>)
  ELSE CommitLoop(r.commits, r.failsAt, max_commits, 1, <<>>, 0)

fetch_commits(r, max_commits) ==
  IF ~r.resolves THEN Raised("UnknownObjectException")
  ELSE CommitLoop(r.commits, r.failsAt, max_commits, 1, <<>>, 0)

(***************************************************************************)
(* main: the fetch-commits command                                         *)
(***************************************************************************)
NoResult == [command |-> "none", max |-> None, state |-> "all",
             status |-> "none", error |-> "", records |-> <<>>]

NoFile == [written |-> FALSE, rows |-> <<>>]

EmptyTable == [columns |-> {}, rows |-> <<>>]

NoReport == [raised |-> "", top |-> None, close_rate |-> None, avg_days |-> None]

FetchCommitsCmd ==
  \E max_commits \in Caps :
    LET df == fetch_commits(repo, max_commits)
    IN  /\ result' = [command |-> "fetch-commits", max |-> max_commits, state |-> "all",
                      status |-> df.status, error |-> df.error, records |-> df.records]
        /\ sink' = IF df.status = "returned"
                   THEN [written |-> TRUE, rows |-> df.records]
                   ELSE sink
        /\ UNCHANGED <<repo, commits_df, issues_df, stdout>>

(***************************************************************************)
(* The hosting API as fetch_issues sees it                                 *)
(***************************************************************************)
\* pull_request: "absent" (no such attribute), "None", or "link" (a value).
IssueKinds ==
  { [pull_request |-> "absent", user |-> Some("alice"), created_at |-> Some(T0), closed_at |-> None],
    [pull_request |-> "None", user |-> Some("alice"), created_at |-> Some(T0), closed_at |-> Some(T1)],
    [pull_request |-> "absent", user |-> Some("alice"), created_at |-> Some(T1), closed_at |-> Some(T0)],
    [pull_request |-> "None", user |-> None, created_at |-> None, closed_at |-> Some(T1)],
    [pull_request |-> "link", user |-> Some("alice"), created_at |-> Some(T0), closed_at |-> Some(T1)],
    [pull_request |-> "link", user |-> Some("alice"), created_at |-> Some(T0), closed_at |-> None] }

StampIssues(kinds) ==
  [i \in DOMAIN kinds |->
     [id |-> i, number |-> 100 + i, title |-> "Issue", comments |-> 0,
      user |-> kinds[i].user,
      state |-> IF kinds[i].closed_at = None THEN "open" ELSE "closed",
      created_at |-> kinds[i].created_at, closed_at |-> kinds[i].closed_at,
      pull_request |-> kinds[i].pull_request]]

IssueLists == {StampIssues(k) : k \in SeqsUpTo(IssueKinds, MaxIssues)}

StateFilters == {"all", "open", "closed"}

\* repo.get_issues(state=state): the items the API yields for the filter.
get_issues(r, state) ==
  IF state = "all" THEN r.issues
  ELSE SelectSeq(r.issues, LAMBDA issue : issue.state = state)

(***************************************************************************)
(* fetch_issues                                                            *)
(***************************************************************************)
\* the test of line 85 without its 'is not None' half
is_pull_request_hasattr_only(issue) == issue.pull_request # "absent"

\* line 85
is_pull_request(issue) == issue.pull_request # "absent" /\ issue.pull_request # "None"

\* whole days rounded toward zero instead
days_toward_zero(delta) ==
  IF delta >= 0 THEN delta \div 86400 ELSE 0 - ((0 - delta) \div 86400)

\* timedelta.days of a difference of delta seconds: days are normalised so
\* that the seconds part is in [0, 86400).
days(delta) == delta \div 86400

\* lines 88-106
IssueRecord(issue) ==
  LET created == issue.created_at
      closed == issue.closed_at
      open_days == IF closed # None /\ created # None
                   THEN Some(days(Val(closed) - Val(created)))
                   ELSE None
  IN  [id |-> issue.id, number |-> issue.number, title |-> issue.title,
       user |-> issue.user, state |-> issue.state,
       created_at |-> IF created # None THEN Some(isoformat(Val(created))) ELSE None,
       closed_at |-> IF closed # None THEN Some(isoformat(Val(closed))) ELSE None,
       comments |-> issue.comments,
       open_duration_days |-> open_days]

\* The for loop of lines 80-107 from the i-th yielded item on.
RECURSIVE IssueLoop(_, _, _, _, _, _)
IssueLoop(items, failsAt, max_issues, i, records, count) ==
  IF failsAt = i THEN Raised("GithubException")
  ELSE IF i > Len(items) THEN Returned(records)
  ELSE IF max_issues # None /\ count >= Val(max_issues) THEN Returned(records)
  ELSE IF is_pull_request(items[i])
       THEN IssueLoop(items, failsAt, max_issues, i + 1, records, count)
       ELSE IssueLoop(items, failsAt, max_issues, i + 1,
                      Append(records, IssueRecord(items[i])), count + 1)

fetch_issues(r, state, max_issues) ==
  IF ~r.resolves THEN Raised("UnknownObjectException")
  ELSE IssueLoop(get_issues(r, state), r.failsAt, max_issues, 1, <<>>, 0)

(***************************************************************************)
(* main: the fetch-issues command                                          *)
(***************************************************************************)
FetchIssuesCmd ==
  \E state \in StateFilters, max_issues \in Caps :
    LET df == fetch_issues(repo, state, max_issues)
    IN  /\ result' = [command |-> "fetch-issues", max |-> max_issues, state |-> state,
                      status |-> df.status, error |-> df.error, records |-> df.records]
        /\ sink' = IF df.status = "returned"
                   THEN [written |-> TRUE, rows |-> df.records]
                   ELSE sink
        /\ UNCHANGED <<repo, commits_df, issues_df, stdout>>

(***************************************************************************)
(* The tables merge_and_summarize is given                                 *)
(***************************************************************************)
CommitColumns == {"sha", "author", "email", "date", "message"}

IssueColumns == {"id", "number", "title", "user", "state", "created_at", "closed_at",
                 "comments", "open_duration_days"}

\* Author names in lexicographic order, the order sort_values compares them in.
AuthorNames == <<"Alice", "Bob", "Carol", "Dave", "Erin", "Frank">>

NameRank(a) == CHOOSE i \in DOMAIN AuthorNames : AuthorNames[i] = a

AuthorCells == {None} \cup {Some(AuthorNames[i]) : i \in DOMAIN AuthorNames}

DateCells == {None, Some("not a date"), Some("2025-09-20T12:00:00"), Some("2025-09-22T09:00:00")}

StateCells == {"open", "closed", "CLOSED"}

\* pd.to_datetime(..., errors='coerce') on one cell: NaT for a missing or
\* unparseable cell.
to_datetime(cell) ==
  IF cell = Some("2025-09-20T12:00:00") THEN Some(T0)
  ELSE IF cell = Some("2025-09-22T09:00:00") THEN Some(T1)
  ELSE None

\* a comparison of the state that keeps its case
lower_keeps_case(str) == str

\* str.lower on the state strings of the model.
lower(str) == IF str = "CLOSED" THEN "closed" ELSE str

\* f"{x:.2f}" of the quotient num / den (den > 0), as a number of
\* hundredths: the nearest hundredth, an exact tie going to the even one.
\* (The ties that arise within the bounds are dyadic, so the float is exact.)
format_2f(num, den) ==
  LET q == (100 * num) \div den
      r == 100 * num - q * den
  IN  IF 2 * r < den THEN q
      ELSE IF 2 * r > den THEN q + 1
      ELSE IF q % 2 = 0 THEN q ELSE q + 1

(***************************************************************************)
(* merge_and_summarize                                                     *)
(***************************************************************************)
TopN == 5

\* the sort with both keys descending
SortsBefore_descending_names(a, b) ==
  \/ a.count > b.count
  \/ a.count = b.count /\ NameRank(a.author) > NameRank(b.author)

\* sort_values(['count', 'author'], ascending=[False, True]) on two groups
SortsBefore(a, b) ==
  \/ a.count > b.count
  \/ a.count = b.count /\ NameRank(a.author) < NameRank(b.author)

RECURSIVE sort_values(_)
sort_values(groups) ==
  IF groups = {} THEN <<>>
  ELSE LET first == CHOOSE g \in groups : \A h \in groups \ {g} : SortsBefore(g, h)
       IN  <<first>> \o sort_values(groups \ {first})

head(s, n) == SubSeq(s, 1, Min(n, Len(s)))

\* lines 37-45
dropna(rows) == SelectSeq(rows, LAMBDA row : row.author # None)

top_committers(rows) ==
  LET kept == dropna(rows)
      size(a) == Cardinality({i \in DOMAIN kept : kept[i].author = a})
      groups == {[author |-> Val(kept[i].author), count |-> size(kept[i].author)] :
                   i \in DOMAIN kept}
  IN  head(sort_values(groups), TopN)

\* lines 51-53, printed by line 54
close_rate(issues) ==
  LET total_issues == Len(issues.rows)
      closed_issues ==
        IF "state" \in issues.columns
        THEN Cardinality({i \in DOMAIN issues.rows : lower(issues.rows[i].state) = "closed"})
        ELSE 0
  IN  IF total_issues # 0 THEN format_2f(closed_issues, total_issues) ELSE 0

RECURSIVE Sum(_)
Sum(s) == IF s = <<>> THEN 0 ELSE Head(s) + Sum(Tail(s))

\* the average taken over whole days, as open_duration_days counts them
avg_days_whole_days(issues) ==
  LET closed == SelectSeq(issues.rows,
                  LAMBDA row : to_datetime(row.closed_at) # None /\ to_datetime(row.created_at) # None)
      durations == [i \in DOMAIN closed |->
                      86400 * ((Val(to_datetime(closed[i].closed_at))
                                - Val(to_datetime(closed[i].created_at))) \div 86400)]
  IN  IF durations # <<>>
      THEN [na |-> FALSE, value |-> format_2f(Sum(durations), 86400 * Len(durations))]
      ELSE [na |-> TRUE, value |-> 0]

\* lines 57-63: N/A, or the mean of the durations in hundredths of a day
avg_days(issues) ==
  LET closed == SelectSeq(issues.rows,
                  LAMBDA row : to_datetime(row.closed_at) # None /\ to_datetime(row.created_at) # None)
      durations == [i \in DOMAIN closed |->
                      Val(to_datetime(closed[i].closed_at)) - Val(to_datetime(closed[i].created_at))]
  IN  IF durations # <<>>
      THEN [na |-> FALSE, value |-> format_2f(Sum(durations), 86400 * Len(durations))]
      ELSE [na |-> TRUE, value |-> 0]

\* What the call prints: each statistic is None until its print is reached.
merge_and_summarize(commits, issues) ==
  IF "date" \notin commits.columns THEN [NoReport EXCEPT !.raised = "KeyError: 'date'"]
  ELSE IF "created_at" \notin issues.columns THEN [NoReport EXCEPT !.raised = "KeyError: 'created_at'"]
  ELSE IF "closed_at" \notin issues.columns THEN [NoReport EXCEPT !.raised = "KeyError: 'closed_at'"]
  ELSE IF "author" \notin commits.columns THEN [NoReport EXCEPT !.raised = "KeyError: 'author'"]
  ELSE [raised |-> "",
        top |-> Some(top_committers(commits.rows)),
        close_rate |-> Some(close_rate(issues)),
        avg_days |-> Some(avg_days(issues))]

(***************************************************************************)
(* main: the summarize command                                             *)
(***************************************************************************)
SummarizeCmd ==
  /\ stdout' = merge_and_summarize(commits_df, issues_df)
  /\ result' = [command |-> "summarize", max |-> None, state |-> "all",
                status |-> IF merge_and_summarize(commits_df, issues_df).raised = ""
                           THEN "returned" ELSE "raised",
                error |-> merge_and_summarize(commits_df, issues_df).raised,
                records |-> <<>>]
  /\ UNCHANGED <<repo, sink, commits_df, issues_df>>

(***************************************************************************)
(* Specifications of the fetch commands                                    *)
(***************************************************************************)
Idle ==
  /\ result = NoResult
  /\ sink = NoFile
  /\ commits_df = EmptyTable
  /\ issues_df = EmptyTable
  /\ stdout = NoReport

InitCommits ==
  /\ repo \in {[commits |-> h, issues |-> <<>>, resolves |-> TRUE, failsAt |-> 0] : h \in Histories}
  /\ Idle

NextCommits == FetchCommitsCmd

SpecCommits == InitCommits /\ [][NextCommits]_vars

InitIssues ==
  /\ repo \in {[commits |-> <<>>, issues |-> l, resolves |-> TRUE, failsAt |-> 0] : l \in IssueLists}
  /\ Idle

NextIssues == FetchIssuesCmd

SpecIssues == InitIssues /\ [][NextIssues]_vars

\* Repositories of well-formed items whose access can fail: the repository
\* does not resolve, or the iterator raises at its failsAt-th item.
FaultCommitKinds ==
  {[hasSha |-> TRUE, author |-> Some([name |-> Some(n), email |-> Some("a@example.com"),
                                     date |-> Some(T0)]), message |-> <<"a">>] : n \in {"Alice", "Bob"}}

FaultIssueKinds ==
  {[pull_request |-> p, user |-> Some("alice"), created_at |-> Some(T0), closed_at |-> Some(T1)] :
      p \in {"None", "link"}}

InitFaults ==
  /\ repo \in {[commits |-> StampCommits(c), issues |-> StampIssues(l), resolves |-> rs, failsAt |-> f] :
                 c \in SeqsUpTo(FaultCommitKinds, MaxFaultItems),
                 l \in SeqsUpTo(FaultIssueKinds, MaxFaultItems),
                 rs \in BOOLEAN, f \in 0..(MaxFaultItems + 1)}
  /\ Idle

NextFaults == FetchCommitsCmd \/ FetchIssuesCmd

SpecFaults == InitFaults /\ [][NextFaults]_vars

(***************************************************************************)
(* Specifications of the summarize command                                 *)
(***************************************************************************)
NoRepo == [commits |-> <<>>, issues |-> <<>>, resolves |-> TRUE, failsAt |-> 0]

CommitRow(a) == [author |-> a, date |-> Some("2025-09-20T12:00:00")]

RECURSIVE Repeat(_, _)
Repeat(x, n) == IF n = 0 THEN <<>> ELSE <<x>> \o Repeat(x, n - 1)

\* The commit table with cnt[k] rows of the k-th author cell, the authors
\* laid out in the given order.
RECURSIVE LayOut(_, _, _)
LayOut(cells, order, cnt) ==
  IF order = <<>> THEN <<>>
  ELSE Repeat(CommitRow(cells[Head(order)]), cnt[Head(order)]) \o LayOut(cells, Tail(order), cnt)

AuthorKeys == <<None, Some("Alice"), Some("Bob"), Some("Carol"), Some("Dave"), Some("Erin"),
                Some("Frank")>>

Layouts == {<<1, 2, 3, 4, 5, 6, 7>>, <<7, 6, 5, 4, 3, 2, 1>>, <<4, 2, 6, 1, 7, 3, 5>>}

CommitTables ==
  {[columns |-> CommitColumns, rows |-> LayOut(AuthorKeys, order, cnt)] :
     order \in Layouts, cnt \in [DOMAIN AuthorKeys -> 0..MaxPerAuthor]}

IssueRowKinds ==
  {[state |-> "closed", created_at |-> c, closed_at |-> d] : c \in DateCells, d \in DateCells}
  \cup {[state |-> st, created_at |-> Some("2025-09-20T12:00:00"), closed_at |-> None] :
          st \in {"open", "CLOSED"}}

IssueTables ==
  {[columns |-> IssueColumns, rows |-> rows] : rows \in SeqsUpTo(IssueRowKinds, MaxIssueRows)}

InitTop ==
  /\ repo = NoRepo
  /\ result = NoResult
  /\ sink = NoFile
  /\ commits_df \in CommitTables
  /\ issues_df = [columns |-> IssueColumns, rows |-> <<>>]
  /\ stdout = NoReport

NextSummary == SummarizeCmd

SpecTop == InitTop /\ [][NextSummary]_vars

InitIssueStats ==
  /\ repo = NoRepo
  /\ result = NoResult
  /\ sink = NoFile
  /\ commits_df = [columns |-> CommitColumns, rows |-> <<>>]
  /\ issues_df \in IssueTables
  /\ stdout = NoReport

SpecIssueStats == InitIssueStats /\ [][NextSummary]_vars

\* Tables read from files that need not carry every column.
InitSummary ==
  /\ repo = NoRepo
  /\ result = NoResult
  /\ sink = NoFile
  /\ commits_df \in {[columns |-> cols, rows |-> rows] :
                       cols \in {CommitColumns, CommitColumns \ {"author"}, CommitColumns \ {"date"}},
                       rows \in SeqsUpTo({CommitRow(None), CommitRow(Some("Alice"))}, MaxSummaryRows)}
  /\ issues_df \in {[columns |-> cols, rows |-> rows] :
                      cols \in {IssueColumns, IssueColumns \ {"state"},
                                IssueColumns \ {"created_at"}, IssueColumns \ {"closed_at"}},
                      rows \in SeqsUpTo({r \in IssueRowKinds : r.created_at = Some("2025-09-20T12:00:00")},
                                        MaxSummaryRows)}
  /\ stdout = NoReport

SpecSummary == InitSummary /\ [][NextSummary]_vars

(***************************************************************************)
(* Properties of fetch_commits                                             *)
(***************************************************************************)
\* C1: with a cap k >= 0 and a history of n commits, fetch_commits returns
\* exactly min(k, n) rows, the first min(k, n) commits in source order.
C1_CapIsHardCeiling ==
  (result.command = "fetch-commits" /\ result.status = "returned" /\ result.max # None) =>
     /\ Len(result.records) = Min(Val(result.max), Len(repo.commits))
     /\ \A i \in DOMAIN result.records : result.records[i].sha = repo.commits[i].sha

\* C4: when every source commit has a sha, fetch_commits returns a table
\* with one row per fetched commit (missing optional fields being null)
\* instead of raising.
C4_OnlyMissingShaRaises ==
  (result.command = "fetch-commits" /\ \A i \in DOMAIN repo.commits : repo.commits[i].sha # None) =>
     /\ result.status = "returned"
     /\ \A i \in DOMAIN result.records :
          repo.commits[i].commit.author = None => result.records[i].author = None

\* m is the first line of full with the whitespace around it removed, told
\* by positions: it lies before the first line break of full, everything
\* of the first line outside it is whitespace, and its ends are not.
IsFirstLineTrimmed(full, m) ==
  LET breaks == {i \in DOMAIN full : full[i] \in LineBreaks}
      e == IF breaks = {} THEN Len(full) + 1
           ELSE CHOOSE i \in breaks : \A j \in breaks : i <= j
  IN  \E lo \in 1..e : \E hi \in (lo - 1)..(e - 1) :
        /\ m = [i \in 1..(hi - lo + 1) |-> full[lo + i - 1]]
        /\ \A i \in (1..(lo - 1)) \cup ((hi + 1)..(e - 1)) : full[i] \in Whitespace
        /\ lo <= hi => (full[lo] \notin Whitespace /\ full[hi] \notin Whitespace)

\* C10: the message field of every emitted commit is the first line of the
\* full message with leading and trailing whitespace removed; nothing of a
\* later line is in it.
C10_MessageIsFirstLineTrimmed ==
  (result.command = "fetch-commits" /\ result.status = "returned") =>
     \A i \in DOMAIN result.records :
        /\ repo.commits[i].commit.message # <<>>
        /\ IsFirstLineTrimmed(repo.commits[i].commit.message, result.records[i].message)

\* The second row came from a message whose first line has whitespace
\* before its text and which has a later line of text.
C10_Witness ==
  /\ result.command = "fetch-commits" /\ result.status = "returned"
  /\ Len(result.records) = 2
  /\ repo.commits[2].commit.message = <<" ", "a", "\n", "b">>
  /\ result.records[2].message = <<"a">>

(***************************************************************************)
(* Properties of fetch_issues                                              *)
(***************************************************************************)
Qualifying(items) == SelectSeq(items, LAMBDA it : it.pull_request \in {"absent", "None"})

\* C2: fetch_issues returns exactly the first min(k, m) non-pull-request
\* items of the source in source order (all m without a cap); no item with
\* a pull_request value is emitted and none counts against the cap.
C2_FirstNonPullRequests ==
  (result.command = "fetch-issues" /\ result.status = "returned") =>
     LET qualifying == Qualifying(get_issues(repo, result.state))
         n == IF result.max = None THEN Len(qualifying)
              ELSE Min(Val(result.max), Len(qualifying))
     IN  /\ Len(result.records) = n
         /\ \A i \in 1..n : result.records[i].id = qualifying[i].id
         /\ \A i \in DOMAIN result.records :
              repo.issues[result.records[i].id].pull_request # "link"

\* Under a cap of 2 a pull request lies between the two emitted issues: it
\* was passed over without using up the cap.
C2_Witness ==
  /\ result.command = "fetch-issues" /\ result.status = "returned" /\ result.max = Some(2)
  /\ Len(get_issues(repo, result.state)) = 3
  /\ Len(result.records) = 2
  /\ result.records[1].id = 1
  /\ repo.issues[2].pull_request = "link"
  /\ result.records[2].id = 3

SourceOf(row) == repo.issues[row.id]

Elapsed(issue) == Val(issue.closed_at) - Val(issue.created_at)

TruncateTowardZero(delta) ==
  IF delta >= 0 THEN delta \div 86400 ELSE 0 - ((0 - delta) \div 86400)

\* C3 as stated: open_duration_days is null exactly when a timestamp is
\* null, and otherwise the elapsed days truncated toward zero, whatever the
\* order of the two timestamps.
C3_TruncatedTowardZero ==
  (result.command = "fetch-issues" /\ result.status = "returned") =>
     \A i \in DOMAIN result.records :
        LET row == result.records[i]
            issue == SourceOf(row)
        IN  /\ row.open_duration_days = None <=> (issue.created_at = None \/ issue.closed_at = None)
            /\ row.open_duration_days # None =>
                 Val(row.open_duration_days) = TruncateTowardZero(Elapsed(issue))

\* C3 amended: open_duration_days is null exactly when a timestamp is null,
\* and otherwise the largest whole number of days not above the elapsed
\* time (the floor).
C3_FloorOfElapsedDays ==
  (result.command = "fetch-issues" /\ result.status = "returned") =>
     \A i \in DOMAIN result.records :
        LET row == result.records[i]
            issue == SourceOf(row)
        IN  /\ row.open_duration_days = None <=> (issue.created_at = None \/ issue.closed_at = None)
            /\ row.open_duration_days # None =>
                 /\ 86400 * Val(row.open_duration_days) <= Elapsed(issue)
                 /\ Elapsed(issue) < 86400 * (Val(row.open_duration_days) + 1)

\* Rows of 1.875 days, of -1.875 days and without a duration were emitted.
C3_Witness ==
  /\ result.command = "fetch-issues" /\ result.status = "returned"
  /\ \E i \in DOMAIN result.records :
       /\ SourceOf(result.records[i]).created_at = Some(T0)
       /\ SourceOf(result.records[i]).closed_at = Some(T1)
       /\ result.records[i].open_duration_days = Some(1)
  /\ \E i \in DOMAIN result.records :
       /\ SourceOf(result.records[i]).created_at = Some(T1)
       /\ SourceOf(result.records[i]).closed_at = Some(T0)
       /\ result.records[i].open_duration_days = Some(0 - 2)
  /\ \E i \in DOMAIN result.records : result.records[i].open_duration_days = None

(***************************************************************************)
(* Failure of the source                                                   *)
(***************************************************************************)
\* The source fails in this call for certain: the repository does not
\* resolve, the first step of the iteration raises, or a later one does
\* and no cap ends the loop before it.
SourceFails(command, state, max) ==
  LET n == IF command = "fetch-commits" THEN Len(repo.commits)
           ELSE Len(get_issues(repo, state))
  IN  \/ ~repo.resolves
      \/ repo.failsAt = 1
      \/ max = None /\ repo.failsAt \in 1..(n + 1)

\* C9: a failure of the repository lookup or of the iteration propagates:
\* the fetch raises the source's exception, returns no rows, and the
\* command leaves the output sink as it was.
C9_FailurePropagates ==
  [][ /\ SourceFails(result'.command, result'.state, result'.max) =>
           /\ result'.status = "raised"
           /\ result'.error = IF repo.resolves THEN "GithubException"
                              ELSE "UnknownObjectException"
      /\ result'.status = "raised" => (result'.records = <<>> /\ sink' = sink)
    ]_vars

\* The iteration failed after one commit had been gathered, and nothing
\* was written.
C9_Witness ==
  /\ result.command = "fetch-commits" /\ result.status = "raised"
  /\ result.error = "GithubException"
  /\ repo.failsAt = 2 /\ Len(repo.commits) = 2
  /\ ~sink.written

(***************************************************************************)
(* Properties of merge_and_summarize                                       *)
(***************************************************************************)
Unprinted == {f \in {"top", "close_rate", "avg_days"} : stdout[f] = None}

\* C5: the three statistics are independent: whatever happens to one of
\* them, the other two are printed.
C5_StatisticsIndependent ==
  result.command = "summarize" => Cardinality(Unprinted) <= 1

CommitCount(a) == Cardinality({i \in DOMAIN commits_df.rows : commits_df.rows[i].author = Some(a)})

Authors == {a \in Range(AuthorNames) : CommitCount(a) > 0}

RanksBefore(a, b) ==
  \/ CommitCount(a) > CommitCount(b)
  \/ CommitCount(a) = CommitCount(b) /\ NameRank(a) < NameRank(b)

\* C6: the printed list is the first min(5, d) of the d distinct non-null
\* authors by descending commit count, then ascending name; null authors
\* form no group and add to no count.
C6_TopCommitters ==
  (result.command = "summarize" /\ stdout.top # None) =>
     LET top == Val(stdout.top)
         listed == {top[i].author : i \in DOMAIN top}
     IN  /\ Len(top) = Min(5, Cardinality(Authors))
         /\ listed \subseteq Authors
         /\ \A i \in DOMAIN top : top[i].count = CommitCount(top[i].author)
         /\ \A i \in DOMAIN top : \A j \in DOMAIN top :
              i < j => RanksBefore(top[i].author, top[j].author)
         /\ \A a \in listed : \A b \in Authors \ listed : RanksBefore(a, b)

\* Six authors, some tied and some not, and rows without an author: five
\* are printed and the tie at the cut is broken by name.
C6_Witness ==
  /\ result.command = "summarize" /\ stdout.top # None
  /\ Cardinality(Authors) = 6
  /\ \E i \in DOMAIN commits_df.rows : commits_df.rows[i].author = None
  /\ Len(Val(stdout.top)) = 5
  /\ Val(stdout.top)[1] = [author |-> "Carol", count |-> 2]
  /\ Val(stdout.top)[2] = [author |-> "Frank", count |-> 2]
  /\ Val(stdout.top)[5] = [author |-> "Dave", count |-> 1]
  /\ CommitCount("Erin") = 1

ClosedRows == {i \in DOMAIN issues_df.rows : issues_df.rows[i].state \in {"closed", "CLOSED"}}

Abs(x) == IF x >= 0 THEN x ELSE 0 - x

\* C7 as stated: the reported close rate equals closed / total, and is 0.0
\* for a table of zero rows.
C7_CloseRateIsQuotient ==
  (result.command = "summarize" /\ stdout.close_rate # None) =>
     LET total == Len(issues_df.rows)
     IN  IF total = 0 THEN Val(stdout.close_rate) = 0
         ELSE Val(stdout.close_rate) * total = 100 * Cardinality(ClosedRows)

\* C7 amended: the reported close rate is closed / total rounded to two
\* decimal places (a hundredth nearest to the quotient), and is 0.00 for a
\* table of zero rows.
C7_CloseRateRounded ==
  (result.command = "summarize" /\ stdout.close_rate # None) =>
     LET total == Len(issues_df.rows)
     IN  IF total = 0 THEN Val(stdout.close_rate) = 0
         ELSE 2 * Abs(100 * Cardinality(ClosedRows) - Val(stdout.close_rate) * total) <= total

\* Two of three rows are closed, one of them spelt CLOSED: 0.67 is printed.
C7_Witness ==
  /\ result.command = "summarize"
  /\ Len(issues_df.rows) = 3
  /\ \E i \in DOMAIN issues_df.rows : issues_df.rows[i].state = "CLOSED"
  /\ \E i \in DOMAIN issues_df.rows : issues_df.rows[i].state = "open"
  /\ stdout.close_rate = Some(67)

Parses(cell) == cell \in {Some("2025-09-20T12:00:00"), Some("2025-09-22T09:00:00")}

TimedRows ==
  {i \in DOMAIN issues_df.rows :
     Parses(issues_df.rows[i].created_at) /\ Parses(issues_df.rows[i].closed_at)}

ElapsedSeconds(i) ==
  Val(to_datetime(issues_df.rows[i].closed_at)) - Val(to_datetime(issues_df.rows[i].created_at))

RECURSIVE ElapsedSum(_)
ElapsedSum(S) ==
  IF S = {} THEN 0
  ELSE LET i == CHOOSE j \in S : TRUE IN ElapsedSeconds(i) + ElapsedSum(S \ {i})

\* C8 as stated: the reported average is the mean of the exact elapsed
\* days over the rows whose two timestamps parse, and N/A exactly when
\* there is no such row.
C8_AverageIsExactMean ==
  (result.command = "summarize" /\ stdout.avg_days # None) =>
     LET avg == Val(stdout.avg_days)
     IN  /\ avg.na <=> TimedRows = {}
         /\ ~avg.na =>
              avg.value * 86400 * Cardinality(TimedRows) = 100 * ElapsedSum(TimedRows)

\* C8 amended: the reported average is the mean of the exact elapsed days
\* over the rows whose two timestamps parse, rounded to two decimal
\* places, and N/A exactly when there is no such row.
C8_AverageIsRoundedMean ==
  (result.command = "summarize" /\ stdout.avg_days # None) =>
     LET avg == Val(stdout.avg_days)
         den == 86400 * Cardinality(TimedRows)
     IN  /\ avg.na <=> TimedRows = {}
         /\ ~avg.na =>
              2 * Abs(100 * ElapsedSum(TimedRows) - avg.value * den) <= den

\* Of three rows one has an unparseable timestamp; the other two last
\* 1.875 and 0 days, and 0.94 is printed.
C8_Witness ==
  /\ result.command = "summarize" /\ stdout.avg_days # None
  /\ Len(issues_df.rows) = 3
  /\ Cardinality(TimedRows) = 2
  /\ \E i \in DOMAIN issues_df.rows : issues_df.rows[i].closed_at = Some("not a date")
  /\ ElapsedSum(TimedRows) = 162000
  /\ Val(stdout.avg_days) = [na |-> FALSE, value |-> 94]

====
